---- MODULE Spec2Model ----
(***************************************************************************)
(* A model of minimal-pixels (src/main.rs): one winit event loop that      *)
(* owns a window, a 320 x 240 RGBA pixel surface and a stored mouse        *)
(* position, and dispatches every event through one `match`.  Each arm of  *)
(* the match is one action.  `draw` and `update` are the two hooks.        *)
(***************************************************************************)
EXTENDS Integers, Sequences, FiniteSets, TLC

----------------------------------------------------------------------------
(* Program constants *)

\* const WIN_SIZE: (u32, u32) = (640, 480)
WIN_W == 640
WIN_H == 480

\* const PIX_SIZE: (u32, u32) = (320, 240)
PIX_W == 320
PIX_H == 240

\* let timer_length = Duration::from_millis(15), in milliseconds
timer_length == 15

\* The literal copied into a pixel by draw: &[0xff, 0xff, 0x50, 0xff]
RECT_COLOR == <<255, 255, 80, 255>>

\* A freshly built Pixels buffer is zero-filled.
ZERO_PIXEL == <<0, 0, 0, 0>>

\* let mut mouse_pos: (f64, f64) = (-1f64, -1f64)
INITIAL_MOUSE_POS == <<-1, -1>>

----------------------------------------------------------------------------
(* Bounds of the model *)

\* The clock is not advanced past this many milliseconds.
MaxTime == 30

\* A timer event is delivered on its deadline or this many milliseconds late.
MaxLag == 1

----------------------------------------------------------------------------
(* Inputs the environment can deliver *)

OWN_WINDOW == "window"
OTHER_WINDOW == "other"
WindowIds == {OWN_WINDOW, OTHER_WINDOW}

\* Physical pointer positions carried by CursorMoved.
CursorPositions == {<<321, 101>>, <<640, 100>>}

\* Physical sizes carried by Resized: a window shrunk to nothing (minimised)
\* and a window brought back to its first size.
ResizeSizes == {<<0, 0>>, <<640, 480>>}

\* window.scale_factor() of the display the window opens on.
ScaleFactors == {1}

\* MouseInput: state and button.
MouseInputs == {<<"Pressed", "Left">>, <<"Released", "Left">>,
                <<"Pressed", "Right">>}

\* KeyEvent: state and repeat flag (the key itself is always "a").
KeyEvents == {[pressed |-> TRUE, repeat |-> TRUE],
              [pressed |-> FALSE, repeat |-> FALSE]}

\* The window events the loop can deliver: those of the application's window
\* with every input above, those of another window with one input each.
Deliveries(inputs) ==
    {<<OWN_WINDOW, i>> : i \in inputs}
        \cup {<<OTHER_WINDOW, CHOOSE i \in inputs : TRUE>>}

LagChoices == {0, MaxLag}

\* What can fail while main sets up, before event_loop.run.
StartupFailures == {"event_loop", "window", "pixels"}

----------------------------------------------------------------------------
(* Arithmetic helpers *)

Min(a, b) == IF a <= b THEN a ELSE b
Max(a, b) == IF a >= b THEN a ELSE b

\* `as i16` on a usize: keep the low 16 bits, read as two's complement.
AsI16(v) == ((v + 32768) % 65536) - 32768

\* `as f32` on an f64 holding an integer: exact up to 2^24, beyond that
\* rounded to the nearest representable value (ties to even) while below 2^25.
AsF32(v) ==
    LET a == IF v < 0 THEN -v ELSE v
        r == IF a <= 16777216 THEN a
             ELSE IF a % 2 = 0 THEN a
             ELSE IF ((a - 1) \div 2) % 2 = 0 THEN a - 1 ELSE a + 1
    IN IF v < 0 THEN -r ELSE r

\* floor(a / b) for b > 0
FloorDiv(a, b) == a \div b

----------------------------------------------------------------------------
(* The pixel buffer.  pixels.frame_mut() is a byte slice of                *)
(* PIX_W * PIX_H * 4 bytes; chunks_exact_mut(4) splits it into pixels of   *)
(* four bytes.  The model keeps the chunks in rows of PIX_W: chunk i is    *)
(* frame[i \div PIX_W][i % PIX_W].                                         *)

ChunkAt(f, i) == f[(i \div PIX_W) + 1][(i % PIX_W) + 1]

NewFrame(p) == [r \in 1..PIX_H |-> [c \in 1..PIX_W |-> p]]

\* Mutants of InRect: the last column left out; the column x = 50 let in.
InRectNarrow(x, y) == x > 50 /\ x < 99 /\ y > 50 /\ y < 100
InRectWide(x, y) == x >= 50 /\ x < 100 /\ y > 50 /\ y < 100

\* The test of draw's `if`.
InRect(x, y) == x > 50 /\ x < 100 /\ y > 50 /\ y < 100

\* What draw leaves in chunk i of frame f.
drawChunk(f, i) ==
    LET x == AsI16(i % PIX_W)
        y == AsI16(i \div PIX_W)
    IN IF InRect(x, y) THEN RECT_COLOR ELSE ChunkAt(f, i)

\* fn draw(frame: &mut [u8])
draw(f) ==
    [r \in 1..Len(f) |->
        [c \in 1..PIX_W |-> drawChunk(f, (r - 1) * PIX_W + (c - 1))]]

----------------------------------------------------------------------------
(* The render surface (pixels crate), as far as main.rs uses it.           *)

\* The integer factor by which the buffer is scaled up into the surface.
SurfaceScale(size) == Max(1, Min(size[1] \div PIX_W, size[2] \div PIX_H))

\* pixels.window_pos_to_pixel(pos): the buffer is centred in the surface at
\* SurfaceScale; Ok((px, py)) inside the buffer, Err otherwise.
window_pos_to_pixel(size, pos) ==
    LET s  == SurfaceScale(size)
        ox == (size[1] - PIX_W * s) \div 2
        oy == (size[2] - PIX_H * s) \div 2
        px == FloorDiv(pos[1] - ox, s)
        py == FloorDiv(pos[2] - oy, s)
    IN IF px < 0 \/ px >= PIX_W \/ py < 0 \/ py >= PIX_H
       THEN [ok |-> FALSE, px |-> px, py |-> py]
       ELSE [ok |-> TRUE, px |-> px, py |-> py]

\* pixels.resize_surface(w, h) refuses an empty surface.
resize_surface_ok(w, h) == w > 0 /\ h > 0

----------------------------------------------------------------------------
VARIABLES
    pc,             \* "boot", "ready" (run called), "running", "exited", "dead"
    failed,         \* what killed the process, "none" while it lives
    frame,          \* the Pixels buffer, in rows of PIX_W chunks
    surface_size,   \* physical size of the render surface
    mouse_pos,      \* the closure's mouse_pos
    exiting,        \* target.exit() has been called
    control_flow,   \* the loop's ControlFlow
    redraw_pending, \* window.request_redraw() not yet answered
    now,            \* Instant::now(), in ms since the process started
    last,           \* the arm that handled the latest event, what it called
                    \* in order, and what it printed
    pointer         \* history: the position carried by the latest CursorMoved
                    \* delivered for the application's window, <<>> if none

vars == <<pc, failed, frame, surface_size, mouse_pos, exiting, control_flow,
          redraw_pending, now, last, pointer>>

Handled(arm, calls, out) == [arm |-> arm, calls |-> calls, out |-> out]

\* ControlFlow::default(), in force until the first set_control_flow.
Wait == [kind |-> "Wait", at |-> 0]
WaitUntil(t) == [kind |-> "WaitUntil", at |-> t]

\* Mutant of update: it forgets the pointer.
updateResetsMouse(s) == [s EXCEPT !.mouse_pos = INITIAL_MOUSE_POS]

\* fn update() { /* Do nothing */ }: the state it returns is the state it got.
update(s) == s

Init ==
    /\ pc = "boot"
    /\ failed = "none"
    /\ frame = NewFrame(ZERO_PIXEL)
    /\ surface_size = <<0, 0>>
    /\ mouse_pos = INITIAL_MOUSE_POS
    /\ exiting = FALSE
    /\ control_flow = Wait
    /\ redraw_pending = FALSE
    /\ now = 0
    /\ last = Handled("none", <<>>, <<>>)
    /\ pointer = <<>>

----------------------------------------------------------------------------
(* main, up to event_loop.run *)

\* EventLoop::new().expect(..), WindowBuilder...build(&event_loop)?,
\* PixelsBuilder...build().expect(..): any of them failing ends the process;
\* otherwise the surface gets the window's physical size.
Startup(failure, scale_factor) ==
    /\ pc = "boot"
    /\ IF failure = "none"
       THEN /\ pc' = "ready"
            /\ surface_size' = <<WIN_W * scale_factor, WIN_H * scale_factor>>
            /\ UNCHANGED failed
       ELSE /\ pc' = "dead"
            /\ failed' = failure
            /\ UNCHANGED surface_size
    /\ UNCHANGED <<frame, mouse_pos, exiting, control_flow, redraw_pending,
                   now, last, pointer>>

----------------------------------------------------------------------------
(* The closure given to event_loop.run: one action per arm of the match.   *)

\* The loop hands events to the closure while it runs.  The closure itself
\* has no guard on the exit flag; the model takes the loop to deliver nothing
\* but LoopExiting once target.exit() has been called.
Dispatching == pc = "running" /\ ~exiting

\* `_ => {}`: also where a window event for another window id ends up.
Drop ==
    /\ last' = Handled("default", <<>>, <<>>)
    /\ UNCHANGED <<pc, failed, frame, surface_size, mouse_pos, exiting,
                   control_flow, redraw_pending, now, pointer>>

\* Event::NewEvents(StartCause::Init): the first event of the loop.
NewEventsInit ==
    /\ pc = "ready"
    /\ pc' = "running"
    /\ control_flow' = WaitUntil(now + timer_length)
    /\ last' = Handled("init", <<"set_control_flow">>, <<>>)
    /\ UNCHANGED <<failed, frame, surface_size, mouse_pos, exiting,
                   redraw_pending, now, pointer>>

\* Mutant of ResumeTimeReached: the redraw is requested before update runs.
ResumeTimeReachedRedrawFirst(lag) ==
    /\ Dispatching
    /\ control_flow.kind = "WaitUntil"
    /\ control_flow.at + lag <= MaxTime
    /\ now' = control_flow.at + lag
    /\ redraw_pending' = TRUE
    /\ control_flow' = WaitUntil(now' + timer_length)
    /\ last' = Handled("tick",
                       <<"request_redraw", "update", "set_control_flow">>, <<>>)
    /\ UNCHANGED <<pc, failed, frame, mouse_pos, surface_size, exiting, pointer>>

\* Mutant of ResumeTimeReached: a periodic timer, rearmed from the deadline
\* that has just passed.
ResumeTimeReachedFromDeadline(lag) ==
    /\ Dispatching
    /\ control_flow.kind = "WaitUntil"
    /\ control_flow.at + lag <= MaxTime
    /\ now' = control_flow.at + lag
    /\ redraw_pending' = TRUE
    /\ control_flow' = WaitUntil(control_flow.at + timer_length)
    /\ last' = Handled("tick",
                       <<"update", "request_redraw", "set_control_flow">>, <<>>)
    /\ UNCHANGED <<pc, failed, frame, mouse_pos, surface_size, exiting, pointer>>

\* Event::NewEvents(StartCause::ResumeTimeReached { .. }): delivered once the
\* WaitUntil deadline has passed, `lag` ms after it.
ResumeTimeReached(lag) ==
    /\ Dispatching
    /\ control_flow.kind = "WaitUntil"
    /\ control_flow.at + lag <= MaxTime
    /\ now' = control_flow.at + lag
    /\ LET s == update([frame |-> frame, mouse_pos |-> mouse_pos])
       IN /\ frame' = s.frame
          /\ mouse_pos' = s.mouse_pos
    /\ redraw_pending' = TRUE
    /\ control_flow' = WaitUntil(now' + timer_length)
    /\ last' = Handled("tick",
                       <<"update", "request_redraw", "set_control_flow">>, <<>>)
    /\ UNCHANGED <<pc, failed, surface_size, exiting, pointer>>

\* WindowEvent::CloseRequested
CloseRequested(window_id) ==
    /\ Dispatching
    /\ IF window_id = OWN_WINDOW
       THEN /\ exiting' = TRUE
            /\ last' = Handled("close", <<"exit">>, <<>>)
            /\ UNCHANGED <<pc, failed, frame, surface_size, mouse_pos,
                           control_flow, redraw_pending, now, pointer>>
       ELSE Drop

\* WindowEvent::RedrawRequested: draw, then pixels.render().unwrap()
RedrawRequested(window_id, render_ok) ==
    /\ Dispatching
    /\ IF window_id = OWN_WINDOW
       THEN /\ frame' = draw(frame)
            /\ redraw_pending' = FALSE
            /\ last' = Handled("redraw", <<"draw", "render">>, <<>>)
            /\ IF render_ok
               THEN UNCHANGED <<pc, failed>>
               ELSE pc' = "dead" /\ failed' = "render"
            /\ UNCHANGED <<surface_size, mouse_pos, exiting, control_flow, now,
                           pointer>>
       ELSE Drop

\* Mutant of CursorMoved: the coordinates are stored the wrong way round.
CursorMovedSwapped(window_id, pos) ==
    /\ Dispatching
    /\ IF window_id = OWN_WINDOW
       THEN /\ mouse_pos' = <<pos[2], pos[1]>>
            /\ pointer' = pos
            /\ last' = Handled("cursor", <<>>, <<>>)
            /\ UNCHANGED <<pc, failed, frame, surface_size, exiting,
                           control_flow, redraw_pending, now>>
       ELSE Drop

\* WindowEvent::CursorMoved { position, .. }
CursorMoved(window_id, pos) ==
    /\ Dispatching
    /\ IF window_id = OWN_WINDOW
       THEN /\ mouse_pos' = <<pos[1], pos[2]>>
            /\ pointer' = pos
            /\ last' = Handled("cursor", <<>>, <<>>)
            /\ UNCHANGED <<pc, failed, frame, surface_size, exiting,
                           control_flow, redraw_pending, now>>
       ELSE Drop

\* Mutant of ClickOutput: the pixel pair is printed whether or not the
\* mapping succeeded.
ClickOutputUnchecked(size, pos) ==
    LET res == window_pos_to_pixel(size, <<AsF32(pos[1]), AsF32(pos[2])>>)
    IN << <<"Mouse clicked:">>,
          <<"Physical", pos[1], pos[2]>>,
          <<"Pixels", res.px, res.py>> >>

\* What the click arm prints.
ClickOutput(size, pos) ==
    LET res == window_pos_to_pixel(size, <<AsF32(pos[1]), AsF32(pos[2])>>)
    IN << <<"Mouse clicked:">>,
          <<"Physical", pos[1], pos[2]>>,
          IF res.ok THEN <<"Pixels", res.px, res.py>>
                    ELSE <<"Not within Pixels space!">> >>

\* WindowEvent::MouseInput { state: Pressed, button: Left, .. }; any other
\* state or button matches no arm but the last.
MouseInput(window_id, state, button) ==
    /\ Dispatching
    /\ IF window_id = OWN_WINDOW /\ state = "Pressed" /\ button = "Left"
       THEN /\ last' = Handled("click", <<"window_pos_to_pixel">>,
                               ClickOutput(surface_size, mouse_pos))
            /\ UNCHANGED <<pc, failed, frame, surface_size, mouse_pos, exiting,
                           control_flow, redraw_pending, now, pointer>>
       ELSE Drop

\* WindowEvent::KeyboardInput { event, .. }
KeyboardInput(window_id, event) ==
    /\ Dispatching
    /\ IF window_id = OWN_WINDOW
       THEN /\ last' = Handled("key", <<>>,
                        << <<IF event.pressed THEN "Pressed" ELSE "Released",
                             "a",
                             IF event.repeat THEN "" ELSE "not ">> >>)
            /\ UNCHANGED <<pc, failed, frame, surface_size, mouse_pos, exiting,
                           control_flow, redraw_pending, now, pointer>>
       ELSE Drop

\* Mutant of Resized: a successful resize also starts the buffer afresh.
ResizedClearsFrame(window_id, new_size) ==
    /\ Dispatching
    /\ IF window_id = OWN_WINDOW
       THEN /\ last' = Handled("resize", <<"resize_surface">>,
                               << <<"Resized", new_size[1], new_size[2]>> >>)
            /\ IF resize_surface_ok(new_size[1], new_size[2])
               THEN /\ surface_size' = new_size
                    /\ frame' = NewFrame(ZERO_PIXEL)
                    /\ UNCHANGED <<pc, failed>>
               ELSE /\ pc' = "dead" /\ failed' = "resize"
                    /\ UNCHANGED <<surface_size, frame>>
            /\ UNCHANGED <<mouse_pos, exiting, control_flow,
                           redraw_pending, now, pointer>>
       ELSE Drop

\* WindowEvent::Resized(new_size): print, then
\* pixels.resize_surface(..).expect("Resize surface failure")
Resized(window_id, new_size) ==
    /\ Dispatching
    /\ IF window_id = OWN_WINDOW
       THEN /\ last' = Handled("resize", <<"resize_surface">>,
                               << <<"Resized", new_size[1], new_size[2]>> >>)
            /\ IF resize_surface_ok(new_size[1], new_size[2])
               THEN surface_size' = new_size /\ UNCHANGED <<pc, failed>>
               ELSE pc' = "dead" /\ failed' = "resize" /\ UNCHANGED surface_size
            /\ UNCHANGED <<frame, mouse_pos, exiting, control_flow,
                           redraw_pending, now, pointer>>
       ELSE Drop

\* Any event no arm names (AboutToWait, WaitCancelled, Focused, ...).
OtherEvent ==
    /\ Dispatching
    /\ Drop

\* After target.exit() the loop delivers LoopExiting, which no arm names,
\* and run returns.
LoopExit ==
    /\ pc = "running"
    /\ exiting
    /\ pc' = "exited"
    /\ last' = Handled("default", <<>>, <<>>)
    /\ UNCHANGED <<failed, frame, surface_size, mouse_pos, exiting,
                   control_flow, redraw_pending, now, pointer>>

Next ==
    \/ \E f \in StartupFailures \cup {"none"}, sf \in ScaleFactors : Startup(f, sf)
    \/ NewEventsInit
    \/ \E lag \in LagChoices : ResumeTimeReached(lag)
    \/ \E w \in WindowIds : CloseRequested(w)
    \/ \E d \in Deliveries(BOOLEAN) : RedrawRequested(d[1], d[2])
    \/ \E d \in Deliveries(CursorPositions) : CursorMoved(d[1], d[2])
    \/ \E d \in Deliveries(MouseInputs) : MouseInput(d[1], d[2][1], d[2][2])
    \/ \E d \in Deliveries(KeyEvents) : KeyboardInput(d[1], d[2])
    \/ \E d \in Deliveries(ResizeSizes) : Resized(d[1], d[2])
    \/ OtherEvent
    \/ LoopExit

Spec == Init /\ [][Next]_vars

----------------------------------------------------------------------------
(* draw on its own: the loop is running, one tick has asked for a redraw,  *)
(* and the buffer holds arbitrary earlier contents: a background colour    *)
(* with one pixel of another colour on or next to an edge of the           *)
(* rectangle or of the buffer.  Only redraws are delivered.                *)

Backgrounds == {<<1, 2, 3, 4>>}
PROBE_PIXEL == <<9, 8, 7, 6>>
ProbeColumns == {0, 50, 51, 99, 100, PIX_W - 1}
ProbeRows == {0, 50, 51, 99, 100, PIX_H - 1}

FrameWithProbe(bg, x, y) ==
    [r \in 1..PIX_H |->
        [c \in 1..PIX_W |-> IF r = y + 1 /\ c = x + 1 THEN PROBE_PIXEL ELSE bg]]

InitDraw ==
    /\ pc = "running"
    /\ failed = "none"
    /\ \E bg \in Backgrounds, x \in ProbeColumns, y \in ProbeRows :
          frame = FrameWithProbe(bg, x, y)
    /\ surface_size = <<WIN_W, WIN_H>>
    /\ mouse_pos = INITIAL_MOUSE_POS
    /\ exiting = FALSE
    /\ now = timer_length
    /\ control_flow = WaitUntil(now + timer_length)
    /\ redraw_pending = TRUE
    /\ last = Handled("tick",
                      <<"update", "request_redraw", "set_control_flow">>, <<>>)
    /\ pointer = <<>>

NextDraw == \E d \in Deliveries(BOOLEAN) : RedrawRequested(d[1], d[2])

SpecDraw == InitDraw /\ [][NextDraw]_vars

----------------------------------------------------------------------------
(* Properties *)

\* Pixel (x, y) of a buffer: column x of row y, which is chunk y * PIX_W + x.
PixelAt(f, x, y) == f[y + 1][x + 1]

Columns == 0..(PIX_W - 1)
Rows(f) == 0..(Len(f) - 1)

\* The block the specification names: 50 < x < 100 and 50 < y < 100.
InBlock(x, y) == 50 < x /\ x < 100 /\ 50 < y /\ y < 100

\* C1: once the redraw arm has run draw, every pixel (x, y) of the 320 x 240
\* buffer with 50 < x < 100 and 50 < y < 100 holds (0xff, 0xff, 0x50, 0xff),
\* whatever the buffer held before.
C1_RectPainted ==
    last.arm = "redraw" =>
        \A y \in 51..99 : \A x \in 51..99 :
            PixelAt(frame, x, y) = <<255, 255, 80, 255>>

\* C1 witness: a redraw has run on a buffer whose background is not the
\* rectangle's colour and whose pixel (99, 99) held the probe colour.
C1_Witness ==
    /\ last.arm = "redraw"
    /\ PixelAt(frame, 99, 99) = RECT_COLOR
    /\ PixelAt(frame, 51, 51) = RECT_COLOR
    /\ PixelAt(frame, 100, 100) = <<1, 2, 3, 4>>
    /\ PixelAt(frame, 50, 50) = <<1, 2, 3, 4>>

\* C2: a step never changes a pixel outside the block, nor the size of the
\* buffer; so, redraw after redraw, what lies outside the block stays what it
\* was before the first redraw.
C2_OutsideUntouched ==
    [][/\ Len(frame') = Len(frame)
       /\ \A y \in Rows(frame) :
             /\ Len(frame'[y + 1]) = Len(frame[y + 1])
             /\ \A x \in Columns :
                   ~InBlock(x, y) => PixelAt(frame', x, y) = PixelAt(frame, x, y)
      ]_vars

\* C2 witness: after a redraw the probe pixel just outside the block, at
\* (50, 50), and the background on the far edge still hold what they held.
C2_Witness ==
    /\ last.arm = "redraw"
    /\ PixelAt(frame, 50, 50) = PROBE_PIXEL
    /\ PixelAt(frame, PIX_W - 1, PIX_H - 1) = <<1, 2, 3, 4>>
    /\ PixelAt(frame, 51, 51) = RECT_COLOR

\* C3: the step of a timer tick, which calls update, leaves the pixel buffer,
\* the stored mouse position, the surface, the exit flag and the life of the
\* process as they were.
C3_UpdateNoMutation ==
    [][last'.arm = "tick" =>
          /\ last'.calls[1] = "update"
          /\ frame' = frame
          /\ mouse_pos' = mouse_pos
          /\ surface_size' = surface_size
          /\ exiting' = exiting
          /\ pc' = pc
          /\ failed' = failed
      ]_vars

\* C3 witness: a tick has just been handled with a painted buffer and a
\* pointer position that a CursorMoved stored.
C3_Witness ==
    /\ last.arm = "tick"
    /\ mouse_pos = <<640, 100>>
    /\ PixelAt(frame, 51, 51) = RECT_COLOR

\* The part of the surface the buffer is shown in: PIX_W x PIX_H pixels, each
\* SurfaceScale wide and high, centred.
InMappedRegion(size, pos) ==
    LET s  == SurfaceScale(size)
        x0 == (size[1] - PIX_W * s) \div 2
        y0 == (size[2] - PIX_H * s) \div 2
    IN /\ x0 <= pos[1] /\ pos[1] < x0 + PIX_W * s
       /\ y0 <= pos[2] /\ pos[2] < y0 + PIX_H * s

NOT_WITHIN == <<"Not within Pixels space!">>

\* C4: a left-button press leaves the loop running and the stored mouse
\* position and the pixel buffer as they were, and its third line of output is
\* the "not within" message when the stored position is outside the mapped
\* region of the surface, a pixel pair only when it is inside.
C4_ClickOutsideReported ==
    [][last'.arm = "click" =>
          /\ pc' = "running" /\ failed' = "none"
          /\ mouse_pos' = mouse_pos
          /\ frame' = frame
          /\ Len(last'.out) = 3
          /\ IF InMappedRegion(surface_size, mouse_pos)
             THEN last'.out[3][1] = "Pixels" /\ Len(last'.out[3]) = 3
             ELSE last'.out[3] = NOT_WITHIN
      ]_vars

\* C4 witness: a click before any pointer move, at (-1, -1), was answered
\* with the "not within" message and the loop is running.
C4_Witness ==
    /\ last.arm = "click"
    /\ mouse_pos = INITIAL_MOUSE_POS
    /\ pointer = <<>>
    /\ last.out[3] = NOT_WITHIN
    /\ pc = "running"

\* C5: a close request for the application's window requests exit, no other
\* event does, and the running loop ends in no other way than after such a
\* request.
C5_CloseOnlyWayOut ==
    [][/\ last'.arm = "close" => exiting'
       /\ exiting' # exiting => last'.arm = "close" /\ exiting'
       /\ (pc = "running" /\ pc' # "running") => (exiting /\ pc' = "exited")
      ]_vars

\* C6: once the loop runs, no failure while handling an event ends the
\* process: the loop goes on or exits on request, and the process dies of a
\* startup failure only.
C6_RuntimeFailuresIgnored ==
    [][/\ pc = "running" => pc' \in {"running", "exited"}
       /\ pc' = "dead" => failed' \in StartupFailures
      ]_vars

\* How often a call occurs in a handler's calls, and where it occurs first.
Count(calls, c) == Cardinality({k \in 1..Len(calls) : calls[k] = c})
FirstIndex(calls, c) == CHOOSE k \in 1..Len(calls) :
                          calls[k] = c /\ \A j \in 1..(k - 1) : calls[j] # c

\* C7: a tick calls update once and requests a redraw once, update first; no
\* other event requests a redraw.
C7_UpdateThenRedraw ==
    [][/\ last'.arm = "tick" =>
             /\ Count(last'.calls, "update") = 1
             /\ Count(last'.calls, "request_redraw") = 1
             /\ FirstIndex(last'.calls, "update")
                    < FirstIndex(last'.calls, "request_redraw")
             /\ redraw_pending'
       /\ last'.arm # "tick" =>
             /\ Count(last'.calls, "request_redraw") = 0
             /\ redraw_pending' => redraw_pending
      ]_vars

\* C7 witness: the second tick has been handled and a redraw is pending.
C7_Witness ==
    /\ last.arm = "tick"
    /\ now >= 2 * timer_length
    /\ redraw_pending

\* C8: the init event and every tick set the deadline to the time the handler
\* runs plus 15 ms, which is later than that time and, when the tick came
\* late, not the passed deadline plus 15 ms; no other event changes the
\* deadline; while the loop runs a deadline is armed.
C8_TimerRearmed ==
    [][/\ last'.arm \in {"init", "tick"} =>
             /\ control_flow' = WaitUntil(now' + 15)
             /\ control_flow'.at > now'
       /\ (last'.arm = "tick" /\ now' > control_flow.at) =>
             control_flow'.at # control_flow.at + 15
       /\ last'.arm \notin {"init", "tick"} => control_flow' = control_flow
       /\ pc' = "running" => control_flow'.kind = "WaitUntil"
      ]_vars

\* C8 witness: a tick that came late has rearmed the timer from its own time.
C8_Witness ==
    /\ last.arm = "tick"
    /\ now = timer_length + MaxLag
    /\ control_flow = WaitUntil(now + timer_length)

\* The position a click must report: that of the latest pointer move
\* delivered for the window, (-1, -1) before the first.
LatestPointer == IF pointer = <<>> THEN <<-1, -1>> ELSE pointer

\* C9: the stored mouse position is always the position of the latest
\* pointer move delivered for the window, or (-1, -1) before the first, and
\* those are the physical coordinates a click prints.
C9_MousePosIsLatestMove ==
    /\ mouse_pos = LatestPointer
    /\ last.arm = "click" =>
          last.out[2] = <<"Physical", LatestPointer[1], LatestPointer[2]>>

\* C9 witness: a click after a pointer move to (640, 100) printed it.
C9_Witness ==
    /\ last.arm = "click"
    /\ pointer = <<640, 100>>
    /\ last.out[2] = <<"Physical", 640, 100>>

\* C10 as stated: the buffer is written only by the redraw arm, which calls
\* draw and then render; every event handled by another arm leaves the
\* buffer, the stored mouse position and the exit flag as they were.
C10_OthersChangeNothing ==
    [][/\ frame' # frame =>
             (last'.arm = "redraw" /\ last'.calls = <<"draw", "render">>)
       /\ last'.arm # "redraw" =>
             /\ frame' = frame
             /\ mouse_pos' = mouse_pos
             /\ exiting' = exiting
      ]_vars

\* C10 amended: the buffer is written only by the redraw arm, which calls
\* draw and then render; every other arm leaves the buffer as it was, every
\* other arm but the pointer-move arm leaves the stored mouse position, and
\* every other arm but the close arm leaves the exit flag; an event that no
\* arm takes, such as one for another window, changes none of the three.
C10_BufferOnlyByRedraw ==
    [][/\ frame' # frame =>
             (last'.arm = "redraw" /\ last'.calls = <<"draw", "render">>)
       /\ last'.arm # "redraw" => frame' = frame
       /\ last'.arm \notin {"redraw", "cursor"} => mouse_pos' = mouse_pos
       /\ last'.arm \notin {"redraw", "close"} => exiting' = exiting
      ]_vars

\* C10 witness: a key event was handled with a painted buffer and a moved
\* pointer, both kept.
C10_Witness ==
    /\ last.arm = "key"
    /\ PixelAt(frame, 51, 51) = RECT_COLOR
    /\ PixelAt(frame, 50, 50) = ZERO_PIXEL
    /\ mouse_pos = <<321, 101>>

====
